---- MODULE Spec2Model ----
(***************************************************************************)
(* Model of CoPaw's slash-command dispatcher (CommandHandler) and of the   *)
(* pre-reasoning MemoryCompactionHook.                                     *)
(*                                                                         *)
(* Python strings are sequences of one-character strings, so that strip,   *)
(* lstrip and startswith are computed character by character.              *)
(***************************************************************************)
EXTENDS Integers, Sequences, FiniteSets, TLC

VARIABLES
    content,        \* memory.content: the stored messages, oldest first
    summary,        \* memory's compressed summary
    summary_tasks,  \* memory_manager.summary_tasks: pending background tasks
    enable_mm,      \* CommandHandler._enable_memory_manager
    has_manager,    \* CommandHandler.memory_manager is not None
    threshold,      \* MemoryCompactionHook.memory_compact_threshold
    keep_recent,    \* MemoryCompactionHook.keep_recent
    call            \* what the last operation was given, did and returned

vars == <<content, summary, summary_tasks, enable_mm, has_manager,
          threshold, keep_recent, call>>

(***************************************************************************)
(* Bounds of the model.                                                    *)
(***************************************************************************)
MaxPad == 2         \* characters put before and after a command text
MaxMsgs == 3        \* messages held by the memory
MaxTasks == 1       \* pending background summary tasks
MaxKeep == 2        \* largest keep_recent
MaxThreshold == 1   \* largest memory_compact_threshold
MaxBlocks == 2      \* blocks in the list content of one message
MaxTokMsgs == 2     \* messages in a list given to the token counter
MaxHistMsgs == 2    \* messages held by the memory that /history reports

(***************************************************************************)
(* Python string operations.                                               *)
(***************************************************************************)
Whitespace == {" ", "\t"}

startswith(s, c) == Len(s) > 0 /\ s[1] = c

RECURSIVE lstripChars(_, _)
lstripChars(s, cs) ==
    IF Len(s) > 0 /\ s[1] \in cs THEN lstripChars(Tail(s), cs) ELSE s

RECURSIVE rstripChars(_, _)
rstripChars(s, cs) ==
    IF Len(s) > 0 /\ s[Len(s)] \in cs
    THEN rstripChars(SubSeq(s, 1, Len(s) - 1), cs)
    ELSE s

\* str.strip(): leading and trailing whitespace removed
strip(s) == rstripChars(lstripChars(s, Whitespace), Whitespace)

\* str.lstrip("/"): every leading "/" removed
lstrip(s, c) == lstripChars(s, {c})

(***************************************************************************)
(* Command names.                                                          *)
(***************************************************************************)
cmd_compact == <<"c", "o", "m", "p", "a", "c", "t">>
cmd_new == <<"n", "e", "w">>
cmd_clear == <<"c", "l", "e", "a", "r">>
cmd_history == <<"h", "i", "s", "t", "o", "r", "y">>
cmd_compact_str == <<"c", "o", "m", "p", "a", "c", "t", "_", "s", "t", "r">>
cmd_await_summary ==
    <<"a", "w", "a", "i", "t", "_", "s", "u", "m", "m", "a", "r", "y">>

SYSTEM_COMMANDS ==
    {cmd_compact, cmd_new, cmd_clear, cmd_history, cmd_compact_str,
     cmd_await_summary}

\* the handler of /compact_str missing
HandlerNames_without_compact_str ==
    {cmd_compact, cmd_new, cmd_clear, cmd_history, cmd_await_summary}

\* the names n for which CommandHandler defines a method _process_<n>
HandlerNames ==
    {cmd_compact, cmd_new, cmd_clear, cmd_compact_str, cmd_history,
     cmd_await_summary}

(***************************************************************************)
(* Queries: Python values handed to is_command and handle_command.         *)
(***************************************************************************)
Str(s) == [t |-> "str", s |-> s]
PyNone == [t |-> "NoneType", s |-> <<>>]
PyInt == [t |-> "int", s |-> <<>>]
NoQuery == [t |-> "absent", s |-> <<>>]

PadChars == {"/", " ", "\t"}

Pads == UNION {[1..n -> PadChars] : n \in 0..MaxPad}

\* texts that are no command: other case, an argument, the empty name,
\* an unknown word, a method name that is no handler
OtherBodies ==
    {<<"C", "o", "m", "p", "a", "c", "t">>,
     <<"c", "o", "m", "p", "a", "c", "t", " ", "x">>,
     <<>>,
     <<"f", "o", "o">>,
     <<"n", "e", "w", "s">>,
     <<"c", "o", "m", "p", "a", "c", "t", "_">>}

Bodies == SYSTEM_COMMANDS \cup OtherBodies

Queries ==
    {Str(p \o b \o q) : p \in Pads, b \in Bodies, q \in Pads}
        \cup {PyNone, PyInt}

(***************************************************************************)
(* CommandHandler.is_command                                               *)
(***************************************************************************)
CommandName(s) == lstrip(strip(s), "/")

\* the check of the leading "/" left out
is_command_no_startswith(query) ==
    IF query.t # "str"
    THEN FALSE
    ELSE CommandName(query.s) \in SYSTEM_COMMANDS

is_command(query) ==
    IF query.t # "str" \/ ~startswith(query.s, "/")
    THEN FALSE
    ELSE CommandName(query.s) \in SYSTEM_COMMANDS

(***************************************************************************)
(* Messages and the memory.  A message has an id, a role, at most one      *)
(* tool block (a tool_use or the tool_result answering it), the state of   *)
(* the tool result's output text and a mark.                               *)
(***************************************************************************)
COMPRESSED == "compressed"

NewMsg(id, role, tool) ==
    [id |-> id, role |-> role, tool |-> tool,
     out |-> IF tool = "result" THEN "long" ELSE "none", mark |-> "none"]

\* the kinds of message the agent stores: a system prompt, a user turn, an
\* assistant tool call, and a tool result posted under the system role
Templates ==
    {<<"system", "none">>, <<"user", "none">>, <<"assistant", "use">>,
     <<"system", "result">>}

Range(f) == {f[i] : i \in DOMAIN f}

Ids(ms) == [i \in 1..Len(ms) |-> ms[i].id]

IsUncompressed(m) == m.mark # COMPRESSED

\* memory.get_memory(exclude_mark=COMPRESSED, prepend_summary=False)
get_memory(c) == SelectSeq(c, IsUncompressed)

\* memory.update_messages_mark(new_mark=COMPRESSED, msg_ids=ids)
update_messages_mark(c, ids) ==
    [i \in 1..Len(c) |->
        IF c[i].id \in Range(ids) THEN [c[i] EXCEPT !.mark = COMPRESSED]
        ELSE c[i]]

\* _truncate_text on a tool result's output: a text over the limit is cut
truncate_text(out) == IF out = "long" THEN "cut" ELSE out

\* the texts compact_memory can return
Summaries == {"", "s1"}

(***************************************************************************)
(* The record of the last operation.                                       *)
(***************************************************************************)
NoCall ==
    [op |-> "init", query |-> NoQuery, result |-> "", handler |-> <<>>,
     reply |-> "", scheduled |-> <<>>, compacted |-> <<>>,
     summary_set |-> <<>>, marked |-> <<>>, est |-> -1, failed |-> "none",
     sys |-> <<>>, compact |-> <<>>, keep |-> <<>>, waited |-> -1,
     total |-> -1, tokenizer |-> "", messages |-> <<>>, text |-> <<>>,
     value |-> -1, max_input_length |-> 0, summary_tokens |-> -1,
     usage |-> <<>>, entries |-> <<>>]

config == <<enable_mm, has_manager, threshold, keep_recent>>

Init ==
    /\ content = <<>>
    /\ summary = ""
    /\ summary_tasks = <<>>
    /\ enable_mm \in BOOLEAN
    /\ has_manager \in BOOLEAN
    /\ threshold \in 1..MaxThreshold
    /\ keep_recent \in 0..MaxKeep
    /\ call = NoCall

\* the agent stores a message (memory.add)
AddMessage(t) ==
    /\ Len(content) < MaxMsgs
    /\ content' = Append(content, NewMsg(Len(content) + 1, t[1], t[2]))
    /\ call' = [NoCall EXCEPT !.op = "add"]
    /\ UNCHANGED <<summary, summary_tasks, config>>

\* is_command applied to the query that was drawn
IsCommand ==
    /\ call.op = "input"
    /\ call' = [call EXCEPT !.op = "is_command",
                            !.result = IF is_command(call.query) THEN "True"
                                       ELSE "False"]
    /\ UNCHANGED <<content, summary, summary_tasks, config>>

(***************************************************************************)
(* CommandHandler: the handlers.  Each is given the query q and the        *)
(* messages handle_command read.  Calls on the memory and the memory       *)
(* manager return; handle_command has no except clause around them.        *)
(***************************************************************************)
_has_memory_manager == enable_mm /\ has_manager

\* the last message's id left out of msg_ids
_mark_messages_compressed_but_last(c, messages) ==
    update_messages_mark(c, Ids(SubSeq(messages, 1, Len(messages) - 1)))

\* CommandHandler._mark_messages_compressed
_mark_messages_compressed(c, messages) == update_messages_mark(c, Ids(messages))

Cmd(q, h, reply) ==
    [NoCall EXCEPT !.op = "handle_command", !.query = q, !.result = "Msg",
                   !.handler = h, !.reply = reply]

Reply(q, h, reply) ==
    /\ call' = Cmd(q, h, reply)
    /\ UNCHANGED <<content, summary, summary_tasks>>

_process_compact(q, messages) ==
    IF messages = <<>> THEN Reply(q, cmd_compact, "No messages to compact")
    ELSE IF ~_has_memory_manager
    THEN Reply(q, cmd_compact, "Memory Manager Disabled")
    ELSE \E ret \in Summaries :     \* the text compact_memory returns
        /\ Len(summary_tasks) < MaxTasks
        /\ summary_tasks' = Append(summary_tasks, Ids(messages))
        /\ summary' = ret
        /\ content' = _mark_messages_compressed(content, messages)
        /\ call' = [Cmd(q, cmd_compact, "Compact Complete") EXCEPT
                      !.scheduled = <<Ids(messages)>>,
                      !.compacted = <<[msgs |-> Ids(messages),
                                       prev |-> summary, ret |-> ret]>>,
                      !.summary_set = <<ret>>,
                      !.marked = <<Ids(messages)>>]

\* the summary left as it is
new_summary_kept == summary

\* the summary /new sets: update_compressed_summary("")
new_summary == ""

_process_new(q, messages) ==
    IF messages = <<>>
    THEN /\ summary' = ""
         /\ call' = [Cmd(q, cmd_new, "No messages to summarize") EXCEPT
                       !.summary_set = <<"">>]
         /\ UNCHANGED <<content, summary_tasks>>
    ELSE IF ~_has_memory_manager
    THEN Reply(q, cmd_new, "Memory Manager Disabled")
    ELSE
        /\ Len(summary_tasks) < MaxTasks
        /\ summary_tasks' = Append(summary_tasks, Ids(messages))
        /\ summary' = new_summary
        /\ content' = _mark_messages_compressed(content, messages)
        /\ call' = [Cmd(q, cmd_new, "New Conversation Started") EXCEPT
                      !.scheduled = <<Ids(messages)>>,
                      !.summary_set = <<new_summary>>,
                      !.marked = <<Ids(messages)>>]

\* the messages that were read are removed, the compressed ones stay
clear_uncompressed(c) == SelectSeq(c, LAMBDA m : m.mark = COMPRESSED)

\* self.memory.content.clear()
clear(c) == <<>>

_process_clear(q, messages) ==
    /\ content' = clear(content)
    /\ summary' = ""
    /\ call' = [Cmd(q, cmd_clear, "History Cleared") EXCEPT
                  !.summary_set = <<"">>]
    /\ UNCHANGED summary_tasks

_process_compact_str(q, messages) ==
    IF summary = "" THEN Reply(q, cmd_compact_str, "No Compressed Summary")
    ELSE Reply(q, cmd_compact_str, "Compressed Summary")

_process_history(q, messages) ==
    /\ call' = [Cmd(q, cmd_history, "Conversation History") EXCEPT
                  !.total = Len(messages)]
    /\ UNCHANGED <<content, summary, summary_tasks>>

_process_await_summary(q, messages) ==
    IF ~_has_memory_manager
    THEN Reply(q, cmd_await_summary, "Memory Manager Disabled")
    ELSE IF Len(summary_tasks) = 0
    THEN Reply(q, cmd_await_summary, "No Summary Tasks")
    ELSE
        \* memory_manager.await_summary_tasks() waits for the pending tasks
        \* and empties the list
        /\ summary_tasks' = <<>>
        /\ call' = [Cmd(q, cmd_await_summary, "Summary Tasks Complete") EXCEPT
                      !.waited = Len(summary_tasks)]
        /\ UNCHANGED <<content, summary>>

(***************************************************************************)
(* CommandHandler.handle_command                                           *)
(***************************************************************************)
NoHandler == <<"N", "o", "n", "e">>

\* a default handler in place of None
getattr_process_default(command) ==
    IF command \in HandlerNames THEN command ELSE cmd_history

\* getattr(self, f"_process_{command}", None)
getattr_process(command) ==
    IF command \in HandlerNames THEN command ELSE NoHandler

Dispatch(handler, q, messages) ==
    CASE handler = cmd_compact -> _process_compact(q, messages)
      [] handler = cmd_new -> _process_new(q, messages)
      [] handler = cmd_clear -> _process_clear(q, messages)
      [] handler = cmd_compact_str -> _process_compact_str(q, messages)
      [] handler = cmd_history -> _process_history(q, messages)
      [] handler = cmd_await_summary ->
            _process_await_summary(q, messages)

Raise(q, exc) ==
    /\ call' = [NoCall EXCEPT !.op = "handle_command", !.query = q,
                              !.result = exc]
    /\ UNCHANGED <<content, summary, summary_tasks>>

handle_command(q) ==
    LET messages == get_memory(content) IN
    IF q.t # "str"
    THEN Raise(q, "AttributeError")      \* query.strip() on a non-string
    ELSE LET command == CommandName(q.s)
             handler == getattr_process(command)
         IN  IF handler = NoHandler
             THEN Raise(q, "RuntimeError")
             ELSE Dispatch(handler, q, messages)

\* the queries handle_command is driven with
CmdQueries ==
    {Str(<<"/">> \o b) : b \in SYSTEM_COMMANDS}
        \cup {Str(<<"/", "C", "o", "m", "p", "a", "c", "t">>),
              Str(<<"/", "f", "o", "o">>), Str(<<"/">>), Str(cmd_compact),
              Str(<<"/", "/">> \o cmd_new \o <<" ">>), PyNone}

HandleCommand(q) ==
    /\ handle_command(q)
    /\ UNCHANGED config

(***************************************************************************)
(* MemoryCompactionHook.__call__                                           *)
(***************************************************************************)
\* no message taken for the system prompt
SystemPrefixLen_none(messages) == 0

\* the number of leading system-role messages (the loop that fills
\* system_prompt_messages)
RECURSIVE SystemPrefixLen(_)
SystemPrefixLen(messages) ==
    IF messages # <<>> /\ Head(messages).role = "system"
    THEN 1 + SystemPrefixLen(Tail(messages))
    ELSE 0

\* messages[n:]
DropFirst(messages, n) == SubSeq(messages, n + 1, Len(messages))

\* messages[-k:] for k > 0
LastK(messages, k) ==
    SubSeq(messages, IF k >= Len(messages) THEN 1 ELSE Len(messages) - k + 1,
           Len(messages))

\* messages[:-k] for k > 0
DropLastK(messages, k) == SubSeq(messages, 1, Len(messages) - k)

\* check_valid_messages: every tool_use has its tool_result in the list and
\* every tool_result its tool_use
check_valid_messages(messages) ==
    (\E i \in 1..Len(messages) : messages[i].tool = "use")
        <=> (\E i \in 1..Len(messages) : messages[i].tool = "result")

\* keep_length left at keep_recent, the suffix not tested
KeepLength_unchecked(remaining, keep_length) == keep_length

\* the while loop that shortens keep_length to a valid suffix
RECURSIVE KeepLength(_, _)
KeepLength(remaining, keep_length) ==
    IF keep_length > 0 /\ ~check_valid_messages(LastK(remaining, keep_length))
    THEN KeepLength(remaining, keep_length - 1)
    ELSE keep_length

\* the kept messages not sliced off
MessagesToCompact_all(remaining, keep_length) == remaining

MessagesToCompact(remaining, keep_length) ==
    IF keep_length > 0 THEN DropLastK(remaining, keep_length) ELSE remaining

MessagesToKeep(remaining, keep_length) ==
    IF keep_length > 0 THEN LastK(remaining, keep_length) ELSE <<>>

\* _truncate_tool_result_texts(messages_to_keep): the kept messages are the
\* memory's own objects, so the memory sees the cut outputs
_truncate_tool_result_texts(c, messages) ==
    [i \in 1..Len(c) |->
        IF c[i].id \in Range(Ids(messages))
        THEN [c[i] EXCEPT !.out = truncate_text(c[i].out)]
        ELSE c[i]]

\* >= in place of >
ShouldCompact_at_threshold(estimated_tokens) == estimated_tokens >= threshold

\* estimated_tokens > self.memory_compact_threshold
ShouldCompact(estimated_tokens) == estimated_tokens > threshold

\* the token counts safe_count_message_tokens can return
TokenCounts == 0..(MaxThreshold + 1)

\* the steps of the hook that call into the memory, the formatter, the token
\* counter and the memory manager, each of which can raise
HookSteps ==
    {"get_memory", "format", "count_tokens", "compact_memory",
     "update_compressed_summary", "update_messages_mark"}

\* the read of the memory left outside the try block
Caught_after_read(step) ==
    step \in {"format", "count_tokens", "compact_memory",
              "update_compressed_summary", "update_messages_mark"}

\* the try block spans every step and the bare access messages[-1];
\* "except Exception" catches what they raise
Caught(step) == step \in HookSteps \cup {"IndexError"}

HookCall(failed) ==
    [NoCall EXCEPT !.op = "hook", !.failed = failed,
                   !.result = IF failed # "none" /\ ~Caught(failed)
                              THEN "raised" ELSE "None"]

\* what one call of the hook leaves behind: fail is the step that raises if
\* it is reached, n the token count safe_count_message_tokens returns and
\* ret the text compact_memory returns
HookOutcome(fail, n, ret) ==
    LET messages == get_memory(content)
        same == [content |-> content, summary |-> summary,
                 tasks |-> summary_tasks, call |-> NoCall]
    IN
    IF fail = "get_memory"
    THEN [same EXCEPT !.call = HookCall("get_memory")]
    ELSE IF messages = <<>>
    THEN [same EXCEPT !.call = HookCall("IndexError")]   \* messages[-1]
    ELSE
    LET sp == SystemPrefixLen(messages)
        system_prompt_messages == SubSeq(messages, 1, sp)
        remaining_messages == DropFirst(messages, sp)
    IN
    IF Len(remaining_messages) <= keep_recent
    THEN [same EXCEPT !.call =
            [HookCall("none") EXCEPT !.sys = Ids(system_prompt_messages),
                                     !.keep = Ids(remaining_messages)]]
    ELSE
    LET keep_length == KeepLength(remaining_messages, keep_recent)
        messages_to_compact == MessagesToCompact(remaining_messages, keep_length)
        messages_to_keep == MessagesToKeep(remaining_messages, keep_length)
        cut == [same EXCEPT !.content =
                    _truncate_tool_result_texts(content, messages_to_keep)]
        split(failed) ==
            [HookCall(failed) EXCEPT !.sys = Ids(system_prompt_messages),
                                     !.compact = Ids(messages_to_compact),
                                     !.keep = Ids(messages_to_keep)]
        ids == Ids(messages_to_compact)
    IN
    IF fail \in {"format", "count_tokens"}
    THEN [cut EXCEPT !.call = split(fail)]
    ELSE IF ~ShouldCompact(n)
    THEN [cut EXCEPT !.call = [split("none") EXCEPT !.est = n]]
    ELSE
    LET scheduled == [cut EXCEPT !.tasks = Append(summary_tasks, ids)]
        started(failed) == [split(failed) EXCEPT !.est = n,
                                                 !.scheduled = <<ids>>]
        compacted == <<[msgs |-> ids, prev |-> summary, ret |-> ret]>>
    IN
    IF fail = "compact_memory"
    THEN [scheduled EXCEPT !.call = started(fail)]
    ELSE IF fail = "update_compressed_summary"
    THEN [scheduled EXCEPT !.call =
            [started(fail) EXCEPT !.compacted = compacted]]
    ELSE IF fail = "update_messages_mark"
    THEN [scheduled EXCEPT !.summary = ret,
                           !.call = [started(fail) EXCEPT
                                        !.compacted = compacted,
                                        !.summary_set = <<ret>>]]
    ELSE [scheduled EXCEPT
            !.summary = ret,
            !.content = update_messages_mark(cut.content, ids),
            !.call = [started("none") EXCEPT !.compacted = compacted,
                                             !.summary_set = <<ret>>,
                                             !.marked = <<ids>>]]

Hook ==
    \E o \in {HookOutcome(fail, n, ret) :
                fail \in HookSteps \cup {"none"}, n \in TokenCounts,
                ret \in Summaries} :
    /\ Len(o.tasks) <= MaxTasks
    /\ content' = o.content
    /\ summary' = o.summary
    /\ summary_tasks' = o.tasks
    /\ call' = o.call
    /\ UNCHANGED config

(***************************************************************************)
(* Specifications                                                          *)
(***************************************************************************)
Next ==
    \/ \E t \in Templates : AddMessage(t)
    \/ \E q \in CmdQueries : HandleCommand(q)
    \/ Hook

Spec == Init /\ [][Next]_vars

\* is_command on its own: a handler over an empty memory is given a query
InitCmd ==
    /\ content = <<>>
    /\ summary = ""
    /\ summary_tasks = <<>>
    /\ enable_mm = TRUE
    /\ has_manager = TRUE
    /\ threshold = 1
    /\ keep_recent = 0
    /\ call \in {[NoCall EXCEPT !.op = "input", !.query = q] : q \in Queries}

NextCmd == IsCommand

SpecCmd == InitCmd /\ [][NextCmd]_vars

(***************************************************************************)
(* C1  is_command(query) is True exactly when query is a string that       *)
(* starts with "/" and whose text, with the surrounding whitespace and     *)
(* then every leading "/" taken off, is one of the six command names; it   *)
(* is False for None, for a non-string, for a string that does not begin   *)
(* with "/" and for any other command text.                                *)
(***************************************************************************)
AllIn(s, from, to, cs) == \A k \in from..to : s[k] \in cs

\* s with its surrounding whitespace taken off: the s[a..b] with nothing but
\* whitespace around it and no whitespace at either end of it
Stripped(s) ==
    {SubSeq(s, a, b) : <<a, b>> \in
        {x \in (1..(Len(s) + 1)) \X (0..Len(s)) :
            /\ x[1] <= x[2] + 1
            /\ AllIn(s, 1, x[1] - 1, Whitespace)
            /\ AllIn(s, x[2] + 1, Len(s), Whitespace)
            /\ x[1] <= x[2] => s[x[1]] \notin Whitespace
                                /\ s[x[2]] \notin Whitespace}}

\* s with every leading "/" taken off
SlashesOff(s) ==
    {SubSeq(s, a, Len(s)) : a \in
        {x \in 1..(Len(s) + 1) :
            /\ AllIn(s, 1, x - 1, {"/"})
            /\ x <= Len(s) => s[x] # "/"}}

IsSystemCommandText(query) ==
    /\ query.t = "str"
    /\ Len(query.s) > 0
    /\ query.s[1] = "/"
    /\ \E t \in Stripped(query.s) :
          \E name \in SlashesOff(t) : name \in SYSTEM_COMMANDS

C1_IsCommand ==
    call.op = "is_command" =>
        /\ call.result = "True" <=> IsSystemCommandText(call.query)
        /\ call.result \in {"True", "False"}
        /\ call.query.t # "str" => call.result = "False"
        /\ (call.query.t = "str" /\ ~startswith(call.query.s, "/"))
              => call.result = "False"

\* "//compact_str" followed by a tab is a command
C1_Witness ==
    /\ call.op = "is_command"
    /\ call.result = "True"
    /\ call.query = Str(<<"/", "/">> \o cmd_compact_str \o <<"\t">>)


(***************************************************************************)
(* C2  handle_command raises RuntimeError for every query whose command    *)
(* name (the query with its surrounding whitespace and leading "/" taken   *)
(* off) is not one of the six system commands, and then changes nothing:   *)
(* the memory's messages and their marks, the compressed summary and the   *)
(* background summary tasks are what they were before the call.            *)
(***************************************************************************)
C2_UnknownCommandRaises ==
    [][(/\ call'.op = "handle_command"
        /\ call'.query.t = "str"
        /\ CommandName(call'.query.s) \notin SYSTEM_COMMANDS)
       => /\ call'.result = "RuntimeError"
          /\ content' = content
          /\ summary' = summary
          /\ summary_tasks' = summary_tasks]_vars

\* "/foo" was refused over a memory that holds a compressed message, a
\* summary and a pending task
C2_Witness ==
    /\ call.op = "handle_command"
    /\ call.query = Str(<<"/", "f", "o", "o">>)
    /\ call.result = "RuntimeError"
    /\ \E i \in 1..Len(content) : content[i].mark = COMPRESSED
    /\ summary # ""
    /\ summary_tasks # <<>>

(***************************************************************************)
(* C3  Every query for which is_command returns True is dispatched by      *)
(* handle_command to the handler of exactly that command and never gets    *)
(* the "Unknown command" RuntimeError: the names that have a               *)
(* _process_<name> handler are the names in SYSTEM_COMMANDS.               *)
(***************************************************************************)
\* the headings of the replies each handler can give
RepliesOf(name) ==
    CASE name = cmd_compact ->
            {"No messages to compact", "Memory Manager Disabled",
             "Compact Complete"}
      [] name = cmd_new ->
            {"No messages to summarize", "Memory Manager Disabled",
             "New Conversation Started"}
      [] name = cmd_clear -> {"History Cleared"}
      [] name = cmd_compact_str ->
            {"No Compressed Summary", "Compressed Summary"}
      [] name = cmd_history -> {"Conversation History"}
      [] name = cmd_await_summary ->
            {"Memory Manager Disabled", "No Summary Tasks",
             "Summary Tasks Complete"}
      [] OTHER -> {}

C3_CommandsAreDispatched ==
    /\ HandlerNames = SYSTEM_COMMANDS
    /\ (call.op = "handle_command" /\ is_command(call.query)) =>
          /\ call.result = "Msg"
          /\ call.handler = CommandName(call.query.s)
          /\ call.reply \in RepliesOf(CommandName(call.query.s))

\* "//new " is a command and reached the handler of /new
C3_Witness ==
    /\ call.op = "handle_command"
    /\ call.query = Str(<<"/", "/">> \o cmd_new \o <<" ">>)
    /\ is_command(call.query)
    /\ call.handler = cmd_new
    /\ call.reply = "New Conversation Started"


(***************************************************************************)
(* What a call handed to the memory manager, and the marks of the memory.  *)
(***************************************************************************)
\* the ids of the messages passed to add_async_summary_task or compact_memory
PassedIds(c) ==
    UNION ({Range(c.scheduled[i]) : i \in 1..Len(c.scheduled)}
           \cup {Range(c.compacted[i].msgs) : i \in 1..Len(c.compacted)})

Marks(c) == [i \in 1..Len(c) |-> c[i].mark]

\* the marks of c once the messages with these ids are marked COMPRESSED
MarksWith(c, ids) ==
    [i \in 1..Len(c) |->
        IF c[i].id \in Range(ids) THEN COMPRESSED ELSE c[i].mark]

\* the uncompressed messages before the call
Before == get_memory(content)

\* the leading run of system-role messages among them
LeadingSystem ==
    {Before[i].id : i \in {x \in 1..Len(Before) :
                            \A j \in 1..x : Before[j].role = "system"}}

(***************************************************************************)
(* C4  The hook triggers compaction (schedules a background summary task,  *)
(* calls compact_memory, sets the compressed summary to what it returned   *)
(* and marks the messages COMPRESSED) when and only when the estimated     *)
(* token count of the compactable messages is strictly greater than        *)
(* memory_compact_threshold.  At a count equal to or below the threshold,  *)
(* and when no count was taken, none of the four steps is made, whether or *)
(* not a step raises; above the threshold, in a call in which no step      *)
(* raises, all four are made on the compactable messages.                  *)
(***************************************************************************)
NothingCompacted ==
    /\ call'.scheduled = <<>>
    /\ call'.compacted = <<>>
    /\ call'.summary_set = <<>>
    /\ call'.marked = <<>>
    /\ summary_tasks' = summary_tasks
    /\ summary' = summary
    /\ Marks(content') = Marks(content)

AllCompacted ==
    /\ call'.compact # <<>>
    /\ call'.scheduled = <<call'.compact>>
    /\ summary_tasks' = Append(summary_tasks, call'.compact)
    /\ call'.compacted = <<[msgs |-> call'.compact, prev |-> summary,
                            ret |-> summary']>>
    /\ call'.summary_set = <<summary'>>
    /\ call'.marked = <<call'.compact>>
    /\ Marks(content') = MarksWith(content, call'.compact)

C4_CompactsAboveThreshold ==
    [][call'.op = "hook" =>
        /\ call'.est <= threshold => NothingCompacted
        /\ (call'.est > threshold /\ call'.failed = "none") => AllCompacted
        /\ call'.failed = "none" => (AllCompacted <=> call'.est > threshold)
        /\ ~NothingCompacted => call'.est > threshold]_vars

\* the smallest count over the threshold set off a whole compaction
C4_Witness ==
    /\ call.op = "hook"
    /\ call.est = threshold + 1
    /\ call.failed = "none"
    /\ call.marked = <<call.compact>>
    /\ call.compact # <<>>
    /\ summary_tasks # <<>>

ValidKeepLengths ==
    {k \in 1..keep_recent :
        k <= Len(Before) /\ check_valid_messages(LastK(Before, k))}

LongestValidKeep ==
    IF ValidKeepLengths = {} THEN 0
    ELSE CHOOSE k \in ValidKeepLengths : \A x \in ValidKeepLengths : x <= k

KeptIds ==
    IF LongestValidKeep = 0 THEN {}
    ELSE Range(Ids(LastK(Before, LongestValidKeep)))

C6_SystemPromptPreserved ==
    [][call'.op = "hook" =>
        \A i \in 1..Len(content) :
            content[i].id \in LeadingSystem
            => /\ content'[i].mark # COMPRESSED
               /\ content[i].id \notin PassedIds(call')]_vars

\* a compaction went through over a memory that begins with a system message
C6_Witness ==
    /\ call.op = "hook"
    /\ call.sys # <<>>
    /\ call.marked = <<call.compact>>
    /\ call.compact # <<>>
    /\ \E i \in 1..Len(content) :
          content[i].id \in Range(call.sys) /\ content[i].mark # COMPRESSED

(***************************************************************************)
(* C7  The hook always returns None and never lets an exception reach the  *)
(* agent: when a step fails (reading the memory, an empty memory,          *)
(* formatting, token counting, compact_memory, updating the summary,       *)
(* marking the messages) the exception is caught and the hook still        *)
(* returns None.                                                           *)
(***************************************************************************)
C7_HookReturnsNone ==
    call.op = "hook" => call.result = "None"

\* reading the memory raised, and the hook returned None
C7_Witness ==
    /\ call.op = "hook"
    /\ call.failed = "get_memory"
    /\ call.result = "None"


(***************************************************************************)
(* C8  /compact, when an uncompressed message exists and the memory        *)
(* manager is enabled and present, schedules one background summary task   *)
(* for exactly the uncompressed messages, calls compact_memory with those  *)
(* messages and the current compressed summary as previous_summary, sets   *)
(* the compressed summary to what that call returned and marks exactly     *)
(* those messages COMPRESSED; no uncompressed message remains.             *)
(***************************************************************************)
IsCall(name) ==
    /\ call'.op = "handle_command"
    /\ call'.query.t = "str"
    /\ CommandName(call'.query.s) = name

C8_Compact ==
    [][(IsCall(cmd_compact) /\ Before # <<>> /\ enable_mm /\ has_manager) =>
        /\ call'.scheduled = <<Ids(Before)>>
        /\ summary_tasks' = Append(summary_tasks, Ids(Before))
        /\ Len(call'.compacted) = 1
        /\ call'.compacted[1].msgs = Ids(Before)
        /\ call'.compacted[1].prev = summary
        /\ summary' = call'.compacted[1].ret
        /\ call'.summary_set = <<call'.compacted[1].ret>>
        /\ call'.marked = <<Ids(Before)>>
        /\ Marks(content') = MarksWith(content, Ids(Before))
        /\ Ids(content') = Ids(content)
        /\ get_memory(content') = <<>>]_vars

\* /compact compacted two messages into a new summary, over an earlier one
C8_Witness ==
    /\ call.op = "handle_command"
    /\ call.handler = cmd_compact
    /\ call.reply = "Compact Complete"
    /\ Len(call.marked[1]) = 2
    /\ call.compacted[1].prev # ""
    /\ summary = ""
    /\ Len(summary_tasks) = 1
    /\ get_memory(content) = <<>>

(***************************************************************************)
(* C9  /new, when an uncompressed message exists and the memory manager is *)
(* enabled and present, schedules one background summary task for exactly  *)
(* the uncompressed messages, resets the compressed summary to the empty   *)
(* string and marks exactly those messages COMPRESSED, without calling     *)
(* compact_memory; afterwards no message is uncompressed and the summary   *)
(* is empty.                                                               *)
(***************************************************************************)
C9_New ==
    [][(IsCall(cmd_new) /\ Before # <<>> /\ enable_mm /\ has_manager) =>
        /\ call'.scheduled = <<Ids(Before)>>
        /\ summary_tasks' = Append(summary_tasks, Ids(Before))
        /\ call'.compacted = <<>>
        /\ call'.summary_set = <<"">>
        /\ summary' = ""
        /\ call'.marked = <<Ids(Before)>>
        /\ Marks(content') = MarksWith(content, Ids(Before))
        /\ Ids(content') = Ids(content)
        /\ get_memory(content') = <<>>]_vars

\* /new closed a conversation of two uncompressed messages after a third
\* had been compressed
C9_Witness ==
    /\ call.op = "handle_command"
    /\ call.handler = cmd_new
    /\ call.reply = "New Conversation Started"
    /\ Len(call.marked[1]) = 2
    /\ Len(content) = 3
    /\ summary = ""
    /\ summary_tasks = <<call.marked[1]>>
    /\ get_memory(content) = <<>>

(***************************************************************************)
(* C10  After /clear the memory is empty and the compressed summary is     *)
(* reset: every stored message, compressed or not, system-role or not, is  *)
(* removed and the summary is the empty string, whether or not a memory    *)
(* manager is enabled; /clear schedules no summary task, does not call     *)
(* compact_memory and leaves the pending summary tasks as they are.        *)
(***************************************************************************)
C10_Clear ==
    [][IsCall(cmd_clear) =>
        /\ content' = <<>>
        /\ summary' = ""
        /\ summary_tasks' = summary_tasks
        /\ call'.scheduled = <<>>
        /\ call'.compacted = <<>>
        /\ call'.result = "Msg"]_vars

\* /clear ran with the memory manager disabled and a summary task pending
C10_Witness ==
    /\ call.op = "handle_command"
    /\ call.handler = cmd_clear
    /\ call.reply = "History Cleared"
    /\ ~enable_mm
    /\ summary_tasks # <<>>
    /\ content = <<>>
    /\ summary = ""

(***************************************************************************)
(* utils/token_counting.py.  Python values are records: t is the type and  *)
(* s the text (for an int, the text str() gives).  A dict block has the    *)
(* values of its "text" and "content" keys ("absent" when the key is       *)
(* missing); a message is a dict with a "content" value, or is not a dict. *)
(***************************************************************************)
Absent == [t |-> "absent", s |-> <<>>]
IntValue(s) == [t |-> "int", s |-> s]

\* bool(v)
Truthy(v) ==
    CASE v.t = "str" -> v.s # <<>>
      [] v.t = "int" -> v.s # <<"0">>
      [] OTHER -> FALSE

\* dict.get(key) and dict.get(key, default), given the value under the key
DictGet(v) == IF v.t = "absent" THEN PyNone ELSE v
DictGetDefault(v, default) == IF v.t = "absent" THEN default ELSE v

DictBlock(text, c) == [t |-> "dict", text |-> text, content |-> c, s |-> <<>>]
StrBlock(s) == [t |-> "str", text |-> Absent, content |-> Absent, s |-> s]
IntBlock(s) == [t |-> "int", text |-> Absent, content |-> Absent, s |-> s]

NoContent == [t |-> "absent", s |-> <<>>, items |-> <<>>]
NoneContent == [t |-> "NoneType", s |-> <<>>, items |-> <<>>]
StrContent(s) == [t |-> "str", s |-> s, items |-> <<>>]
ListContent(items) == [t |-> "list", s |-> <<>>, items |-> items]

DictMessage(c) == [t |-> "dict", content |-> c]
StrMessage == [t |-> "str", content |-> NoContent]

Abc == <<"a", "b", "c">>
Hello == <<"h", "e", "l", "l", "o">>

Texts == {<<>>, Abc, Hello}

Blocks ==
    {DictBlock(Str(Abc), Absent),
     DictBlock(Absent, Str(Hello)),
     DictBlock(Str(<<>>), Str(Hello)),
     DictBlock(IntValue(<<"7">>), Absent),
     DictBlock(Absent, Absent),
     DictBlock(PyNone, IntValue(<<"0">>)),
     StrBlock(Abc),
     IntBlock(<<"7">>)}

SeqsUpTo(S, n) == UNION {[1..k -> S] : k \in 0..n}

Contents ==
    {NoContent, NoneContent} \cup {StrContent(s) : s \in Texts}
        \cup {ListContent(b) : b \in SeqsUpTo(Blocks, MaxBlocks)}

DictMessages == {DictMessage(c) : c \in Contents}

MessageLists == SeqsUpTo(DictMessages \cup {StrMessage}, MaxTokMsgs)

\* the tokenizer: it cannot be initialised, its encode raises, or it works
\* (one token id per character, or one per two characters)
Tokenizers == {"init_fails", "encode_raises", "chars", "pairs"}

\* _get_token_counter(): TRUE iff it returns a counter
_get_token_counter(tokenizer) == tokenizer # "init_fails"

\* len(token_counter.tokenizer.encode(text)) of a tokenizer that works
EncodeLen(tokenizer, text) ==
    IF tokenizer = "chars" THEN Len(text) ELSE (Len(text) + 1) \div 2

\* the parts put together with nothing between them
RECURSIVE Join_no_separator(_)
Join_no_separator(parts) ==
    IF parts = <<>> THEN <<>>
    ELSE parts[1] \o Join_no_separator(Tail(parts))

\* "\n".join(parts)
RECURSIVE Join(_)
Join(parts) ==
    IF parts = <<>> THEN <<>>
    ELSE IF Len(parts) = 1 THEN parts[1]
    ELSE parts[1] \o <<"\n">> \o Join(Tail(parts))

\* the parts one block of a list content adds
BlockParts(block) ==
    IF block.t = "dict"
    THEN LET text == IF Truthy(DictGet(block.text)) THEN DictGet(block.text)
                     ELSE DictGetDefault(block.content, Str(<<>>))
         IN  IF Truthy(text) THEN <<text.s>> ELSE <<>>
    ELSE IF block.t = "str" THEN <<block.s>>
    ELSE <<>>

RECURSIVE BlocksParts(_)
BlocksParts(blocks) ==
    IF blocks = <<>> THEN <<>>
    ELSE BlockParts(Head(blocks)) \o BlocksParts(Tail(blocks))

\* the parts one message adds; content = msg.get("content", "")
MessageParts(msg) ==
    LET c == IF msg.content.t = "absent" THEN StrContent(<<>>)
             ELSE msg.content
    IN  IF c.t = "str" THEN <<c.s>>
        ELSE IF c.t = "list" THEN BlocksParts(c.items)
        ELSE <<>>

RECURSIVE MessagesParts(_)
MessagesParts(messages) ==
    IF messages = <<>> THEN <<>>
    ELSE MessageParts(Head(messages)) \o MessagesParts(Tail(messages))

\* msg.get raises AttributeError at the first message that is not a dict
ExtractRaises(messages) == \E i \in 1..Len(messages) : messages[i].t # "dict"

Returned(n) == [raised |-> "", value |-> n]
Raised(e) == [raised |-> e, value |-> -1]

_extract_text_from_messages(messages) ==
    IF ExtractRaises(messages) THEN [raised |-> "AttributeError", text |-> <<>>]
    ELSE [raised |-> "", text |-> Join(MessagesParts(messages))]

count_message_tokens(tokenizer, messages) ==
    IF ~_get_token_counter(tokenizer) THEN Raised("RuntimeError")
    ELSE LET e == _extract_text_from_messages(messages)
         IN  IF e.raised # "" THEN Raised(e.raised)
             ELSE IF tokenizer = "encode_raises" THEN Raised("Exception")
             ELSE Returned(EncodeLen(tokenizer, e.text))

\* the count with no fallback
safe_count_message_tokens_no_fallback(tokenizer, messages) ==
    count_message_tokens(tokenizer, messages)

safe_count_message_tokens(tokenizer, messages) ==
    LET r == count_message_tokens(tokenizer, messages)
    IN  IF r.raised = "" THEN r
        ELSE LET e == _extract_text_from_messages(messages)
             IN  IF e.raised # "" THEN Raised(e.raised)
                 ELSE Returned(Len(e.text) \div 4)

safe_count_str_tokens(tokenizer, text) ==
    IF _get_token_counter(tokenizer) /\ tokenizer # "encode_raises"
    THEN Returned(EncodeLen(tokenizer, text))
    ELSE Returned(Len(text) \div 4)

\* the functions on their own: a tokenizer and an argument are drawn
InitTok ==
    /\ content = <<>>
    /\ summary = ""
    /\ summary_tasks = <<>>
    /\ enable_mm = TRUE
    /\ has_manager = TRUE
    /\ threshold = 1
    /\ keep_recent = 0
    /\ call \in {[NoCall EXCEPT !.op = "messages", !.tokenizer = k,
                                !.messages = m] :
                    k \in Tokenizers, m \in MessageLists}
                \cup {[NoCall EXCEPT !.op = "text", !.tokenizer = k,
                                     !.text = s] :
                        k \in Tokenizers, s \in Texts}

Outcome(r) ==
    [call EXCEPT !.result = IF r.raised = "" THEN "int" ELSE r.raised,
                 !.value = r.value]

SafeCountMessageTokens ==
    /\ call.op = "messages"
    /\ call' = [Outcome(safe_count_message_tokens(call.tokenizer,
                                                  call.messages))
                    EXCEPT !.op = "safe_count_message_tokens"]
    /\ UNCHANGED <<content, summary, summary_tasks, config>>

SafeCountStrTokens ==
    /\ call.op = "text"
    /\ call' = [Outcome(safe_count_str_tokens(call.tokenizer, call.text))
                    EXCEPT !.op = "safe_count_str_tokens"]
    /\ UNCHANGED <<content, summary, summary_tasks, config>>

NextTok == SafeCountMessageTokens \/ SafeCountStrTokens

SpecTok == InitTok /\ [][NextTok]_vars


(***************************************************************************)
(* command_handler.py: _get_block_tokens and the report of /history.  A    *)
(* block of a Msg is a dict with a "type"; text is the value under the key *)
(* its type reads ("text", "thinking", "raw_input", "output", "url" or     *)
(* "data"), input the text of str(input), source the type of its source    *)
(* and output the items of a list output.                                  *)
(***************************************************************************)
HBlock(type, text, input, source, output) ==
    [t |-> "dict", type |-> type, text |-> text, input |-> input,
     source |-> source, output |-> output]

\* a content element that is a plain string
HStr == [t |-> "str", type |-> "absent", text |-> Absent, input |-> Absent,
         source |-> "absent", output |-> <<>>]

InputText == <<"{", "'", "a", "'", ":", " ", "1", "}">>

HText == HBlock("text", Str(Hello), Absent, "absent", <<>>)
HThinking == HBlock("thinking", Str(Abc), Absent, "absent", <<>>)
HToolUse == HBlock("tool_use", Str(Abc), Str(InputText), "absent", <<>>)
HToolUseNoRaw == HBlock("tool_use", PyNone, Str(InputText), "absent", <<>>)
HToolResultStr == HBlock("tool_result", Str(Hello), Absent, "absent", <<>>)
HUntyped == HBlock("absent", Str(Hello), Absent, "absent", <<>>)
HToolResultList ==
    HBlock("tool_result", [t |-> "list", s |-> <<>>], Absent, "absent",
           <<HText, HStr, HThinking, HUntyped, HToolResultStr>>)
HBase64 == HBlock("image", Str(Hello), Absent, "base64", <<>>)
HNoSource == HBlock("image", Absent, Absent, "NoneType", <<>>)

\* the blocks a content is made of; a thinking block, a block without a
\* type and a text output are met as items of the list output
HistoryBlocks ==
    {HText, HToolUse, HToolUseNoRaw, HToolResultList, HBase64, HNoSource,
     HStr}

HistoryContents ==
    {NoneContent, StrContent(Hello)}
        \cup {ListContent(b) : b \in SeqsUpTo(HistoryBlocks, MaxBlocks)}

\* a Msg of the memory with its mark
HistoryMsg(id, c, mark) ==
    [id |-> id, role |-> "user", mark |-> mark, content |-> c]

HistoryMemories ==
    UNION {{[i \in 1..n |-> HistoryMsg(i, c[i], m[i])] :
                c \in [1..n -> HistoryContents],
                m \in [1..n -> {"none", COMPRESSED}]} :
            n \in 0..MaxHistMsgs}

\* config.agents.running.max_input_length
MaxInputLengths == {-1, 0, 8}

\* memory.get_compressed_summary()
CompressedSummaries == {PyNone, Str(<<>>), Str(Hello)}

\* block.get("type", "unknown")
BlockType(block) == IF block.type = "absent" THEN "unknown" ELSE block.type

\* (count, text) if text else (0, "")
CountIfAny(tokenizer, text) ==
    IF text = <<>> THEN Returned(0) ELSE safe_count_str_tokens(tokenizer, text)

\* r + the count of the next block, or the exception either raised
Plus(r, b) ==
    IF r.raised # "" THEN r
    ELSE IF b.raised # "" THEN b
    ELSE Returned(r.value + b.value)

RECURSIVE _get_block_tokens(_, _, _)
RECURSIVE ItemsTokens(_, _)

\* the loop over the items of a list output: items that are no dicts are
\* passed over
ItemsTokens(tokenizer, items) ==
    IF items = <<>> THEN Returned(0)
    ELSE Plus(IF Head(items).t = "dict"
              THEN _get_block_tokens(tokenizer, Head(items),
                                     BlockType(Head(items)))
              ELSE Returned(0),
              ItemsTokens(tokenizer, Tail(items)))

_get_block_tokens(tokenizer, block, block_type) ==
    CASE block_type \in {"text", "thinking"} ->
            CountIfAny(tokenizer, DictGetDefault(block.text, Str(<<>>)).s)
      [] block_type = "tool_use" ->
            IF DictGetDefault(block.text, Str(<<>>)).t # "str"
            THEN Raised("TypeError")        \* input_str + raw_input
            ELSE CountIfAny(tokenizer,
                            block.input.s
                                \o DictGetDefault(block.text, Str(<<>>)).s)
      [] block_type = "tool_result" ->
            IF block.text.t = "str" THEN CountIfAny(tokenizer, block.text.s)
            ELSE IF block.text.t = "list"
            THEN ItemsTokens(tokenizer, block.output)
            ELSE Returned(0)
      [] block_type \in {"image", "audio", "video"} ->
            IF block.source = "NoneType"
            THEN Raised("AttributeError")   \* source.get
            ELSE IF block.source = "url"
            THEN safe_count_str_tokens(tokenizer,
                                       DictGetDefault(block.text, Str(<<>>)).s)
            ELSE IF block.source = "base64"
            THEN Returned(Len(DictGetDefault(block.text, Str(<<>>)).s) \div 4)
            ELSE Returned(0)
      [] OTHER -> Returned(0)

\* the loop over the blocks of a content: block.get raises on a block that
\* is no dict
RECURSIVE ContentTokens(_, _)
ContentTokens(tokenizer, blocks) ==
    IF blocks = <<>> THEN Returned(0)
    ELSE Plus(IF Head(blocks).t = "dict"
              THEN _get_block_tokens(tokenizer, Head(blocks),
                                     BlockType(Head(blocks)))
              ELSE Raised("AttributeError"),
              ContentTokens(tokenizer, Tail(blocks)))

\* the try block over one message
InspectMessage(tokenizer, msg) ==
    IF msg.content.t = "str"
    THEN safe_count_str_tokens(tokenizer, msg.content.s)
    ELSE IF msg.content.t = "list"
    THEN ContentTokens(tokenizer, msg.content.items)
    ELSE Raised("TypeError")                \* for block in content

\* the loop without its try block
HistoryEntry_unprotected(tokenizer, msg) ==
    LET r == InspectMessage(tokenizer, msg)
    IN  [text_tokens |-> r.value, error |-> r.raised]

\* one entry of the report: try ... except Exception: text_tokens = 0
HistoryEntry(tokenizer, msg) ==
    LET r == InspectMessage(tokenizer, msg)
    IN  IF r.raised = "" THEN [text_tokens |-> r.value, error |-> ""]
        ELSE [text_tokens |-> 0, error |-> r.raised]

\* a text block read from a block of a Msg
FormatBlock(block) ==
    IF block.t = "dict" /\ block.text.t = "str"
    THEN <<DictBlock(block.text, Absent)>>
    ELSE <<>>

RECURSIVE FormatBlocks(_)
FormatBlocks(blocks) ==
    IF blocks = <<>> THEN <<>>
    ELSE FormatBlock(Head(blocks)) \o FormatBlocks(Tail(blocks))

\* self.formatter.format(msgs=messages): one dict for each Msg, its content
\* the list of the text blocks
format(messages) ==
    [i \in 1..Len(messages) |->
        DictMessage(ListContent(
            IF messages[i].content.t = "str"
            THEN <<DictBlock(Str(messages[i].content.s), Absent)>>
            ELSE FormatBlocks(messages[i].content.items)))]

\* context_usage_ratio as the fraction <<numerator, denominator>>
context_usage_ratio(estimated_tokens, max_input_length) ==
    IF max_input_length > 0
    THEN <<estimated_tokens * 100, max_input_length>>
    ELSE <<0, 1>>

\* the numbers of the report _process_history makes
HistoryReport(tokenizer, compressed, max_input_length, messages) ==
    LET compressed_summary == IF Truthy(compressed) THEN compressed.s ELSE <<>>
        compressed_summary_tokens ==
            safe_count_str_tokens(tokenizer, compressed_summary).value
        messages_tokens ==
            safe_count_message_tokens(tokenizer, format(messages)).value
        estimated_tokens == messages_tokens + compressed_summary_tokens
    IN  [total |-> Len(messages),
         estimated_tokens |-> estimated_tokens,
         summary_tokens |-> compressed_summary_tokens,
         usage |-> context_usage_ratio(estimated_tokens, max_input_length),
         entries |-> [i \in 1..Len(messages) |->
                        HistoryEntry(tokenizer, messages[i])]]

\* /history on its own: a memory, its summary, a tokenizer and a
\* max_input_length are drawn
InitHist ==
    /\ content \in HistoryMemories
    /\ summary \in CompressedSummaries
    /\ summary_tasks = <<>>
    /\ enable_mm = TRUE
    /\ has_manager = TRUE
    /\ threshold = 1
    /\ keep_recent = 0
    /\ call \in {[NoCall EXCEPT !.op = "config", !.tokenizer = k,
                                !.max_input_length = n] :
                    k \in {"init_fails", "chars"}, n \in MaxInputLengths}

\* handle_command("/history"): the uncompressed messages are read and
\* reported
History ==
    /\ call.op = "config"
    /\ \E r \in {HistoryReport(call.tokenizer, summary, call.max_input_length,
                               get_memory(content))} :
        call' = [call EXCEPT !.op = "handle_command",
                             !.handler = cmd_history,
                             !.result = "Msg",
                             !.reply = "Conversation History",
                             !.total = r.total,
                             !.value = r.estimated_tokens,
                             !.summary_tokens = r.summary_tokens,
                             !.usage = r.usage,
                             !.entries = r.entries]
    /\ UNCHANGED <<content, summary, summary_tasks, config>>

NextHist == History

SpecHist == InitHist /\ [][NextHist]_vars

(***************************************************************************)
(* C11  With a tokenizer that cannot be initialised or whose encode        *)
(* raises, safe_count_str_tokens(text) returns floor(len(text) / 4) and    *)
(* safe_count_message_tokens(messages) returns floor(len(T) / 4), T being  *)
(* the texts extracted from the messages joined by newlines; with a        *)
(* tokenizer that works each returns the number of token ids the           *)
(* tokenizer produced for that text.                                       *)
(***************************************************************************)
TokenizerFails(k) == k \in {"init_fails", "encode_raises"}

\* n = floor(len / 4)
IsQuarter(n, len) == 4 * n <= len /\ len < 4 * n + 4

RECURSIVE SumLen(_)
SumLen(parts) ==
    IF parts = <<>> THEN 0 ELSE Len(Head(parts)) + SumLen(Tail(parts))

\* len("\n".join(parts)): the characters of the parts and one newline
\* between neighbours
JoinedLen(parts) ==
    IF parts = <<>> THEN 0 ELSE SumLen(parts) + Len(parts) - 1

AllDicts(messages) == \A i \in 1..Len(messages) : messages[i].t = "dict"

C11_FallbackIsQuarterOfLength ==
    /\ call.op = "safe_count_str_tokens" =>
        /\ call.result = "int"
        /\ TokenizerFails(call.tokenizer) =>
            IsQuarter(call.value, Len(call.text))
        /\ ~TokenizerFails(call.tokenizer) =>
            call.value = EncodeLen(call.tokenizer, call.text)
    /\ (call.op = "safe_count_message_tokens" /\ AllDicts(call.messages)) =>
        /\ call.result = "int"
        /\ TokenizerFails(call.tokenizer) =>
            IsQuarter(call.value, JoinedLen(MessagesParts(call.messages)))
        /\ ~TokenizerFails(call.tokenizer) =>
            \E T \in {_extract_text_from_messages(call.messages).text} :
                /\ Len(T) = JoinedLen(MessagesParts(call.messages))
                /\ call.value = EncodeLen(call.tokenizer, T)

\* the fallback rounds down a text of two joined parts
C11_Witness ==
    /\ call.op = "safe_count_message_tokens"
    /\ call.tokenizer = "encode_raises"
    /\ Len(call.messages) = 2
    /\ MessagesParts(call.messages) = <<Abc, Abc>>
    /\ call.value = 1

(***************************************************************************)
(* C12  safe_count_message_tokens completes with a non-negative integer    *)
(* for every list of message dicts, whatever each content is (missing, a   *)
(* string, None, a list mixing dict blocks, strings and other values),     *)
(* with and without a tokenizer; a list with an element that is not a      *)
(* dict makes it raise AttributeError, with and without a tokenizer.       *)
(***************************************************************************)
C12_IntegerForDictMessages ==
    call.op = "safe_count_message_tokens" =>
        IF AllDicts(call.messages)
        THEN call.result = "int" /\ call.value \in Nat
        ELSE call.result = "AttributeError"

\* C12 as stated: the call completes with a non-negative integer for every
\* list, elements that are not dicts included
C12_NeverRaises ==
    call.op = "safe_count_message_tokens" =>
        call.result = "int" /\ call.value \in Nat

\* no tokenizer, and a list content mixing a dict block and a value that is
\* neither a dict nor a string
C12_Witness ==
    /\ call.op = "safe_count_message_tokens"
    /\ call.tokenizer = "init_fails"
    /\ \E i \in 1..Len(call.messages) :
        /\ call.messages[i].content.t = "list"
        /\ \E j, k \in 1..Len(call.messages[i].content.items) :
            /\ call.messages[i].content.items[j].t = "dict"
            /\ call.messages[i].content.items[k].t = "int"
    /\ \E i \in 1..Len(call.messages) : call.messages[i].content.t = "absent"
    /\ call.result = "int"
    /\ call.value > 0

(***************************************************************************)
(* C13  Whenever the hook splits the uncompressed messages (it read a      *)
(* memory that is not empty and more than keep_recent messages follow the  *)
(* leading system messages), the messages to keep are the longest suffix   *)
(* of the messages after the leading system messages, of a length k with   *)
(* 1 <= k <= keep_recent, that check_valid_messages accepts; they are      *)
(* none when there is no such k or keep_recent is 0, and then every        *)
(* message after the leading system messages is a message to compact.      *)
(* Leading system messages, messages to compact and messages to keep, put  *)
(* one after the other, are exactly the uncompressed messages in their     *)
(* order.                                                                  *)
(***************************************************************************)
AfterLeadingSystem ==
    SubSeq(Before, Cardinality(LeadingSystem) + 1, Len(Before))

SplitMade ==
    /\ call'.op = "hook"
    /\ call'.failed \notin {"get_memory", "IndexError"}
    /\ Len(AfterLeadingSystem) > keep_recent

Uncompressed == SelectSeq(content, LAMBDA m : m.mark # COMPRESSED)

SummaryMissing == summary = PyNone \/ summary.s = <<>>

\* the texts the formatted messages hold, in order
RECURSIVE TextsOf(_)
TextsOf(messages) ==
    IF messages = <<>> THEN <<>>
    ELSE LET c == Head(messages).content
             own == IF c.t = "str" THEN <<c.s>>
                    ELSE IF c.t = "list"
                    THEN LET held == SelectSeq(c.items,
                                        LAMBDA b : b.t = "dict"
                                                   /\ b.text.t = "str")
                         IN  [i \in 1..Len(held) |-> held[i].text.s]
                    ELSE <<>>
         IN  own \o TextsOf(Tail(messages))

\* inspecting the message raises: its content is neither a string nor a
\* list, or holds an element that is no dict, a media block whose source is
\* None, or a tool_use block whose raw_input is None
InspectionRaises(msg) ==
    /\ msg.content.t # "str"
    /\ \/ msg.content.t # "list"
       \/ \E i \in 1..Len(msg.content.items) :
            \/ msg.content.items[i].t # "dict"
            \/ msg.content.items[i].source = "NoneType"
            \/ /\ msg.content.items[i].type = "tool_use"
               /\ msg.content.items[i].text = PyNone

C14_HistoryOverUncompressed ==
    (call.op = "handle_command" /\ call.handler = cmd_history) =>
        /\ call.result = "Msg"
        /\ call.total = Len(Uncompressed)
        /\ call.value =
            safe_count_message_tokens(call.tokenizer,
                                      format(Uncompressed)).value
            + safe_count_str_tokens(call.tokenizer,
                                    IF summary = PyNone THEN <<>>
                                    ELSE summary.s).value
        /\ TokenizerFails(call.tokenizer) =>
            \E n, m \in 0..call.value :
                /\ call.value = n + m
                /\ IsQuarter(n, JoinedLen(TextsOf(Uncompressed)))
                /\ IsQuarter(m, IF summary = PyNone THEN 0 ELSE Len(summary.s))
                /\ SummaryMissing => m = 0
        /\ call.max_input_length <= 0 => call.usage = <<0, 1>>
        /\ call.max_input_length > 0 =>
            call.usage = <<call.value * 100, call.max_input_length>>
        /\ Len(call.entries) = Len(Uncompressed)
        /\ \A i \in 1..Len(Uncompressed) :
            InspectionRaises(Uncompressed[i]) =>
                /\ call.entries[i].text_tokens = 0
                /\ call.entries[i].error # ""

\* one of two messages is compressed, the other holds a text block and a
\* tool_use block whose raw_input is None; no summary, no tokenizer,
\* max_input_length 0
C14_Witness ==
    /\ call.op = "handle_command"
    /\ call.handler = cmd_history
    /\ Len(content) = 2
    /\ content[1].mark = COMPRESSED
    /\ content[2].content = ListContent(<<HText, HToolUseNoRaw>>)
    /\ summary = PyNone
    /\ call.tokenizer = "init_fails"
    /\ call.max_input_length = 0
    /\ call.total = 1
    /\ call.value = 1
    /\ call.usage = <<0, 1>>
    /\ call.entries = <<[text_tokens |-> 0, error |-> "TypeError"]>>

====
